---------------------------- MODULE Spec2Model ----------------------------
(***************************************************************************)
(* PointRenderDeque (engine/client_util/src/renderer/deque.rs): a          *)
(* VecDeque<V> mirrored into a WebGL vertex buffer.                        *)
(*                                                                         *)
(* Elements are opaque, copyable vertices; the code never inspects them,   *)
(* so each pushed vertex is identified by the ordinal of its push_back     *)
(* call (1, 2, 3, ...).  A GPU slot holding 0 holds no vertex data (the    *)
(* store buffer_data leaves behind).  GPU offsets are counted in vertices  *)
(* (the code multiplies every offset by size_of::<V>()).                   *)
(*                                                                         *)
(* std::collections::VecDeque is the ring buffer the code was written      *)
(* against ("VecDeque skips 1 elem", lines 40 and 122): a power-of-two     *)
(* allocation `cap` with one slot always left free, a `tail` slot index    *)
(* of the front element, doubling when full.  Element i of the queue       *)
(* lives in slot (tail + i) % cap.                                         *)
(*                                                                         *)
(* The crate builds with or without debug assertions; the build is chosen  *)
(* once, in Init.  debug_assert! and the #[cfg(debug_assertions)] unbinds  *)
(* exist only in the build that has them.  A failed assertion or unwrap    *)
(* ends the program (pc = "panicked").                                     *)
(*                                                                         *)
(* STARTING_CAP and HARD_CAP keep their role but are scaled down           *)
(* (1023 -> 3, 1000000 -> 9) so that growth, wraparound and the overflow   *)
(* drop all happen inside the explored state space.                        *)
(***************************************************************************)
EXTENDS Integers, Sequences, FiniteSets, TLC

VARIABLES
    buffer,       \* self.buffer: the host VecDeque [cap, tail, items]
    capacity,     \* self.capacity: GPU slots allocated
    tail,         \* self.tail: GPU read cursor
    head,         \* self.head: GPU write cursor
    popped,       \* self.popped
    pushed,       \* self.pushed
    vertices,     \* contents of the WebGlBuffer self.vertices, slot -> vertex
    vao_binding,  \* VERTEX_ARRAY_BINDING_OES of the context is self.vao
    array_buffer_binding, \* ARRAY_BUFFER_BINDING of the context is self.vertices
    bindings,     \* PointRenderDequeBinding values alive (borrowing the deque)
    debug_assertions, \* cfg(debug_assertions) of the build
    ret,          \* vertex returned by the last pop_front, 0 if none
    pc,           \* "running" or "panicked"
    next_v,       \* ordinal of the next vertex handed to push_back
    gl_calls,     \* GL calls issued by the last operation
    last_op,      \* the last operation executed
    synced,       \* no push_back / pop_front call since the last buffer()
    churn,        \* shape of the calls since the last buffer()
    sync_len,     \* length of the host queue at the last buffer()
    pre           \* snapshot of the fields buffer() read, taken by buffer()

vars == <<buffer, capacity, tail, head, popped, pushed, vertices, vao_binding,
          array_buffer_binding, bindings, debug_assertions, ret, pc, next_v, gl_calls, last_op, synced, churn,
          sync_len, pre>>

-----------------------------------------------------------------------------
(* Bounds and scaled program constants *)

STARTING_CAP == 3

HARD_CAP == 9

MaxPushes == 11

MaxBindings == 2

-----------------------------------------------------------------------------
(* Integer helpers *)

Min(a, b) == IF a < b THEN a ELSE b

RECURSIVE BitAnd(_, _)
BitAnd(a, b) ==
    IF a = 0 \/ b = 0 THEN 0
    ELSE (a % 2) * (b % 2) + 2 * BitAnd(a \div 2, b \div 2)

RECURSIVE NextPowerOfTwo(_)
NextPowerOfTwo(n) ==
    IF n <= 1 THEN 1 ELSE 2 * NextPowerOfTwo((n + 1) \div 2)

SaturatingSub(a, b) == IF a > b THEN a - b ELSE 0

RECURSIVE SumCounts(_)
SumCounts(calls) ==
    IF calls = << >> THEN 0 ELSE Head(calls).count + SumCounts(Tail(calls))

-----------------------------------------------------------------------------
(* std::collections::VecDeque, as used by the code *)

VecDequeWithCapacity(c) ==
    [cap |-> NextPowerOfTwo(IF c + 1 > 2 THEN c + 1 ELSE 2), tail |-> 0, items |-> << >>]

VecDequeLen(d) == Len(d.items)

VecDequeCapacity(d) == d.cap - 1

VecDequeIsFull(d) == d.cap - Len(d.items) = 1

\* grow(): double the allocation and move the shorter wrapped section.
VecDequeGrow(d) ==
    LET old == d.cap
        hd  == (d.tail + Len(d.items)) % old
    IN  IF d.tail <= hd THEN [d EXCEPT !.cap = 2 * old]
        ELSE IF hd < old - d.tail THEN [d EXCEPT !.cap = 2 * old]
        ELSE [d EXCEPT !.cap = 2 * old, !.tail = 2 * old - (old - d.tail)]

VecDequePushBack(d, v) ==
    LET g == IF VecDequeIsFull(d) THEN VecDequeGrow(d) ELSE d
    IN  [g EXCEPT !.items = Append(g.items, v)]

VecDequeFront(d) == Head(d.items)

VecDequePopFront(d) ==
    [d EXCEPT !.tail = (d.tail + 1) % d.cap, !.items = Tail(d.items)]

\* as_slices(): the run from the tail slot to the end of the allocation,
\* then the run that wrapped to slot 0.
VecDequeAsSlices(d) ==
    LET n     == Len(d.items)
        first == Min(n, d.cap - d.tail)
    IN  <<SubSeq(d.items, 1, first), SubSeq(d.items, first + 1, n)>>

\* range(a..b): elements a .. b-1 (0-based), front to back.
VecDequeRange(d, a, b) == SubSeq(d.items, a + 1, b)

-----------------------------------------------------------------------------
(* GL calls and the GPU buffer *)

BufferData(n) == [call |-> "buffer_data", first |-> 0, count |-> n, data |-> << >>]

BufferSubData(offset, slice) ==
    [call |-> "buffer_sub_data", first |-> offset, count |-> Len(slice), data |-> slice]

DrawArrays(first, count) ==
    [call |-> "draw_arrays", first |-> first, count |-> count, data |-> << >>]

\* Effect of one call on the buffer store bound to ARRAY_BUFFER.
ApplyCall(store, c) ==
    IF c.call = "buffer_data" THEN [i \in 0 .. c.count - 1 |-> 0]
    ELSE IF c.call = "buffer_sub_data"
    THEN [i \in DOMAIN store |->
            IF i >= c.first /\ i < c.first + c.count
            THEN c.data[i - c.first + 1] ELSE store[i]]
    ELSE store

RECURSIVE ApplyCalls(_, _)
ApplyCalls(store, calls) ==
    IF calls = << >> THEN store
    ELSE ApplyCalls(ApplyCall(store, Head(calls)), Tail(calls))

\* Drop the calls a loop skips with `continue` (empty slices).
NonEmptyWrites(calls) == SelectSeq(calls, LAMBDA c : c.count > 0)

-----------------------------------------------------------------------------
(* Pieces of the operations *)

\* Mutant of AtHardCap: the cap test lets one element too many in.
AtHardCapOffByOne(len) == len > HARD_CAP

\* push_back: `self.buffer.len() >= 1000000`.
AtHardCap(len) == len >= HARD_CAP

\* buffer(): `self.buffer.capacity() + 1`.
NewCap(d) == VecDequeCapacity(d) + 1

\* Mutant of NeedsGrowth: an equal capacity is reallocated too.
NeedsGrowthOrEqual(new_cap, cap) == new_cap >= cap

\* buffer(): `new_cap > self.capacity`.
NeedsGrowth(new_cap, cap) == new_cap > cap

\* Mutant of GrowthWrites: empty slices are written too.
GrowthWritesKeepEmpty(d) ==
    LET s == VecDequeAsSlices(d)
    IN  <<BufferSubData(0, s[1]), BufferSubData(Len(s[1]), s[2])>>

\* Mutant of GrowthWrites: the offset is not advanced past the first slice.
GrowthWritesSameOffset(d) ==
    LET s == VecDequeAsSlices(d)
    IN  NonEmptyWrites(<<BufferSubData(0, s[1]), BufferSubData(0, s[2])>>)

\* buffer(), growth path: one write per non-empty slice, the second placed
\* right after the first.
GrowthWrites(d) ==
    LET s == VecDequeAsSlices(d)
    IN  NonEmptyWrites(<<BufferSubData(0, s[1]), BufferSubData(Len(s[1]), s[2])>>)

\* Mutant of GrowthHead: growth resets head like tail.
GrowthHeadZero(d) == 0

\* buffer(), growth path: `self.head = self.buffer.len()`.
GrowthHead(d) == VecDequeLen(d)

\* buffer(), incremental path: `self.pushed.min(n)`.
NewPushed(p, n) == Min(p, n)

\* Mutant of NewPopped: skipped pushes are not taken out of popped.
NewPoppedNoCancel(pop, p, new_pushed) == pop

\* buffer(), incremental path: pops that cancel against skipped pushes.
NewPopped(pop, p, new_pushed) ==
    IF new_pushed # p THEN SaturatingSub(pop, p - new_pushed) ELSE pop

\* Mutant of WrapCursor: the mask is the capacity, not capacity - 1.
WrapCursorMaskCap(x, cap) == BitAnd(x, cap)

\* `(x) & (self.capacity - 1)`.
WrapCursor(x, cap) == BitAnd(x, cap - 1)

\* Mutant of PushedVertices: the oldest elements are uploaded, not the newest.
PushedVerticesFront(d, p) == SubSeq(d.items, 1, p)

\* buffer(), incremental path: the vertices to upload, taken from slice b,
\* from slice a, or collected from range().
PushedVertices(d, p) ==
    LET n == VecDequeLen(d)
        s == VecDequeAsSlices(d)
    IN  IF Len(s[2]) >= p THEN SubSeq(s[2], Len(s[2]) - p + 1, Len(s[2]))
        ELSE IF s[2] = << >> THEN SubSeq(s[1], n - p + 1, n)
        ELSE VecDequeRange(d, n - p, n)

\* Mutant of IncrementalWrites: the upload is not split at the end of the
\* GPU buffer.
IncrementalWritesNoSplit(verts, hd, cap) ==
    IF verts = << >> THEN << >> ELSE <<BufferSubData(hd, verts)>>

\* Mutant of IncrementalWrites: empty sub-writes are issued too.
IncrementalWritesKeepEmpty(verts, hd, cap) ==
    LET available == cap - hd
        split     == Min(Len(verts), available)
    IN  <<BufferSubData(hd, SubSeq(verts, 1, split)),
          BufferSubData(0, SubSeq(verts, split + 1, Len(verts)))>>

\* buffer(), incremental path: split the upload at the end of the GPU buffer.
IncrementalWrites(verts, hd, cap) ==
    IF verts = << >> THEN << >>
    ELSE LET available == cap - hd
             split     == Min(Len(verts), available)
         IN  NonEmptyWrites(<<BufferSubData(hd, SubSeq(verts, 1, split)),
                              BufferSubData(0, SubSeq(verts, split + 1, Len(verts)))>>)

\* Mutant of DrawCalls: the wrapped part [0, head) is not drawn.
DrawCallsNoWrappedPart(tl, hd, cap) ==
    IF tl <= hd
    THEN IF hd - tl > 0 THEN <<DrawArrays(tl, hd - tl)>> ELSE << >>
    ELSE IF cap - tl > 0 THEN <<DrawArrays(tl, cap - tl)>> ELSE << >>

\* Mutant of DrawCalls: the wrapped part [0, head) is drawn first.
DrawCallsWrappedFirst(tl, hd, cap) ==
    IF tl <= hd
    THEN IF hd - tl > 0 THEN <<DrawArrays(tl, hd - tl)>> ELSE << >>
    ELSE (IF hd > 0 THEN <<DrawArrays(0, hd)>> ELSE << >>)
         \o (IF cap - tl > 0 THEN <<DrawArrays(tl, cap - tl)>> ELSE << >>)

\* draw(): the draw_arrays calls for the cursors.
DrawCalls(tl, hd, cap) ==
    IF tl <= hd
    THEN IF hd - tl > 0 THEN <<DrawArrays(tl, hd - tl)>> ELSE << >>
    ELSE (IF cap - tl > 0 THEN <<DrawArrays(tl, cap - tl)>> ELSE << >>)
         \o (IF hd > 0 THEN <<DrawArrays(0, hd)>> ELSE << >>)

-----------------------------------------------------------------------------
(* History kept for the properties *)

PreNone ==
    [capacity |-> 0, tail |-> 0, head |-> 0, pushed |-> 0, popped |-> 0,
     len |-> 0, new_cap |-> 0, churn |-> "none", sync_len |-> 0, taken |-> FALSE]

PreNow ==
    [capacity |-> capacity, tail |-> tail, head |-> head, pushed |-> pushed,
     popped |-> popped, len |-> VecDequeLen(buffer), new_cap |-> NewCap(buffer),
     churn |-> churn, sync_len |-> sync_len, taken |-> TRUE]

ChurnAfterPush == IF churn = "none" THEN "push" ELSE "other"

ChurnAfterPop == IF churn = "push" THEN "push_pop" ELSE "other"

-----------------------------------------------------------------------------
(* Operations *)

Init ==
    /\ buffer = VecDequeWithCapacity(STARTING_CAP)
    /\ capacity = 0
    /\ tail = 0
    /\ head = 0
    /\ popped = 0
    /\ pushed = 0
    /\ vertices = << >>
    /\ vao_binding = FALSE
    /\ debug_assertions \in BOOLEAN
    /\ array_buffer_binding = ~debug_assertions
    /\ bindings = 0
    /\ ret = 0
    /\ pc = "running"
    /\ next_v = 1
    /\ gl_calls = << >>
    /\ last_op = "new"
    /\ synced = FALSE
    /\ churn = "none"
    /\ sync_len = 0
    /\ pre = PreNone

\* Mutant of push_back: the push is counted before the cap test.
push_back_counts_dropped ==
    /\ pc = "running"
    /\ bindings = 0
    /\ next_v <= MaxPushes
    /\ \E v \in {next_v} :
         /\ next_v' = v + 1
         /\ pushed' = pushed + 1
         /\ IF AtHardCap(VecDequeLen(buffer))
            THEN /\ UNCHANGED buffer
                 /\ last_op' = "push_back_dropped"
            ELSE /\ buffer' = VecDequePushBack(buffer, v)
                 /\ last_op' = "push_back"
    /\ gl_calls' = << >>
    /\ synced' = FALSE
    /\ churn' = ChurnAfterPush
    /\ pre' = PreNone
    /\ ret' = 0
    /\ UNCHANGED <<capacity, tail, head, popped, vertices, vao_binding,
                   array_buffer_binding, bindings, debug_assertions, pc, sync_len>>

\* push_back(v): &mut self, so no binding of this deque is alive.
push_back ==
    /\ pc = "running"
    /\ bindings = 0
    /\ next_v <= MaxPushes
    /\ \E v \in {next_v} :
         /\ next_v' = v + 1
         /\ IF AtHardCap(VecDequeLen(buffer))
            THEN /\ UNCHANGED <<buffer, pushed>>
                 /\ last_op' = "push_back_dropped"
            ELSE /\ pushed' = pushed + 1
                 /\ buffer' = VecDequePushBack(buffer, v)
                 /\ last_op' = "push_back"
    /\ gl_calls' = << >>
    /\ synced' = FALSE
    /\ churn' = ChurnAfterPush
    /\ pre' = PreNone
    /\ ret' = 0
    /\ UNCHANGED <<capacity, tail, head, popped, vertices, vao_binding,
                   array_buffer_binding, bindings, debug_assertions, pc, sync_len>>

\* Mutant of pop_front: an empty queue yields a default vertex instead of
\* failing.
pop_front_sentinel ==
    /\ pc = "running"
    /\ bindings = 0
    /\ popped' = popped + 1
    /\ IF VecDequeLen(buffer) = 0
       THEN /\ ret' = 0
            /\ UNCHANGED <<buffer, pc>>
       ELSE /\ buffer' = VecDequePopFront(buffer)
            /\ ret' = VecDequeFront(buffer)
            /\ UNCHANGED pc
    /\ gl_calls' = << >>
    /\ last_op' = "pop_front"
    /\ synced' = FALSE
    /\ churn' = ChurnAfterPop
    /\ pre' = PreNone
    /\ UNCHANGED <<capacity, tail, head, pushed, vertices, vao_binding,
                   array_buffer_binding, bindings, debug_assertions, next_v, sync_len>>

\* pop_front(): counts the pop, then unwraps the popped element.
pop_front ==
    /\ pc = "running"
    /\ bindings = 0
    /\ popped' = popped + 1
    /\ IF VecDequeLen(buffer) = 0
       THEN /\ pc' = "panicked"
            /\ ret' = 0
            /\ UNCHANGED buffer
       ELSE /\ buffer' = VecDequePopFront(buffer)
            /\ ret' = VecDequeFront(buffer)
            /\ UNCHANGED pc
    /\ gl_calls' = << >>
    /\ last_op' = "pop_front"
    /\ synced' = FALSE
    /\ churn' = ChurnAfterPop
    /\ pre' = PreNone
    /\ UNCHANGED <<capacity, tail, head, pushed, vertices, vao_binding,
                   array_buffer_binding, bindings, debug_assertions, next_v, sync_len>>

\* Mutant of BufferGrowth: the allocation is sized by the queue's length.
BufferGrowthToLen(new_cap) ==
    LET calls == <<BufferData(VecDequeLen(buffer))>> \o GrowthWrites(buffer)
    IN  /\ capacity' = VecDequeLen(buffer)
        /\ tail' = 0
        /\ head' = GrowthHead(buffer)
        /\ gl_calls' = calls
        /\ vertices' = ApplyCalls(vertices, calls)
        /\ last_op' = "buffer_growth"

\* buffer(gl), growth path.
BufferGrowth(new_cap) ==
    LET calls == <<BufferData(new_cap)>> \o GrowthWrites(buffer)
    IN  /\ capacity' = new_cap
        /\ tail' = 0
        /\ head' = GrowthHead(buffer)
        /\ gl_calls' = calls
        /\ vertices' = ApplyCalls(vertices, calls)
        /\ last_op' = "buffer_growth"

\* buffer(gl), incremental path.
BufferIncremental ==
    LET n          == VecDequeLen(buffer)
        new_pushed == NewPushed(pushed, n)
        new_popped == NewPopped(popped, pushed, new_pushed)
        verts      == PushedVertices(buffer, new_pushed)
        calls      == IncrementalWrites(verts, head, capacity)
    IN  /\ tail' = WrapCursor(tail + new_popped, capacity)
        /\ head' = WrapCursor(head + new_pushed, capacity)
        /\ gl_calls' = calls
        /\ vertices' = ApplyCalls(vertices, calls)
        /\ last_op' = "buffer_incremental"
        /\ UNCHANGED capacity

\* buffer(gl) stopped by a failed assertion.
BufferPanic(bound) ==
    /\ pc' = "panicked"
    /\ array_buffer_binding' = bound
    /\ gl_calls' = << >>
    /\ last_op' = "buffer_panic"
    /\ UNCHANGED <<capacity, tail, head, popped, pushed, vertices,
                   synced, churn, sync_len, pre>>

\* buffer(gl): &mut self, so no binding of this deque is alive; the debug
\* assertions require both context bindings to be null.
Buffer ==
    /\ pc = "running"
    /\ bindings = 0
    /\ LET new_cap == NewCap(buffer)
       IN  IF debug_assertions /\ (vao_binding \/ array_buffer_binding)
           THEN BufferPanic(array_buffer_binding)
           ELSE IF new_cap # NextPowerOfTwo(new_cap)
           THEN BufferPanic(TRUE)
           ELSE /\ IF NeedsGrowth(new_cap, capacity) THEN BufferGrowth(new_cap)
                   ELSE IF popped > 0 \/ pushed > 0 THEN BufferIncremental
                   ELSE /\ gl_calls' = << >>
                        /\ last_op' = "buffer_noop"
                        /\ UNCHANGED <<capacity, tail, head, vertices>>
                /\ pushed' = 0
                /\ popped' = 0
                /\ synced' = TRUE
                /\ churn' = "none"
                /\ sync_len' = VecDequeLen(buffer)
                /\ pre' = PreNow
                /\ array_buffer_binding' = ~debug_assertions
                /\ UNCHANGED pc
    /\ ret' = 0
    /\ UNCHANGED <<buffer, vao_binding, bindings, debug_assertions, next_v>>

\* bind(gl, oes) -> PointRenderDequeBinding::new.
bind ==
    /\ pc = "running"
    /\ bindings < MaxBindings
    /\ IF debug_assertions /\ vao_binding
       THEN /\ pc' = "panicked"
            /\ UNCHANGED <<vao_binding, bindings>>
       ELSE /\ vao_binding' = TRUE
            /\ bindings' = bindings + 1
            /\ UNCHANGED pc
    /\ gl_calls' = << >>
    /\ last_op' = "bind"
    /\ ret' = 0
    /\ UNCHANGED <<buffer, capacity, tail, head, popped, pushed, vertices,
                   array_buffer_binding, debug_assertions,
                   next_v, synced, churn, sync_len, pre>>

\* PointRenderDequeBinding::draw().
draw ==
    /\ pc = "running"
    /\ bindings > 0
    /\ gl_calls' = DrawCalls(tail, head, capacity)
    /\ last_op' = "draw"
    /\ ret' = 0
    /\ UNCHANGED <<buffer, capacity, tail, head, popped, pushed, vertices,
                   vao_binding, array_buffer_binding, bindings, debug_assertions,
                   pc, next_v, synced, churn, sync_len, pre>>

\* Mutant of drop: leaving the scope does not unbind the vertex array.
drop_no_unbind ==
    /\ pc = "running"
    /\ bindings > 0
    /\ bindings' = bindings - 1
    /\ gl_calls' = << >>
    /\ last_op' = "drop"
    /\ ret' = 0
    /\ UNCHANGED <<buffer, capacity, tail, head, popped, pushed, vertices,
                   vao_binding, array_buffer_binding, debug_assertions,
                   pc, next_v, synced, churn, sync_len, pre>>

\* Drop for PointRenderDequeBinding.
drop ==
    /\ pc = "running"
    /\ bindings > 0
    /\ vao_binding' = FALSE
    /\ bindings' = bindings - 1
    /\ gl_calls' = << >>
    /\ last_op' = "drop"
    /\ ret' = 0
    /\ UNCHANGED <<buffer, capacity, tail, head, popped, pushed, vertices,
                   array_buffer_binding, debug_assertions,
                   pc, next_v, synced, churn, sync_len, pre>>

Next == push_back \/ pop_front \/ Buffer \/ bind \/ draw \/ drop

Spec == Init /\ [][Next]_vars

-----------------------------------------------------------------------------
(* Type invariant *)

TypeOK ==
    /\ capacity \in Nat /\ tail \in Nat /\ head \in Nat
    /\ popped \in Nat /\ pushed \in Nat
    /\ DOMAIN vertices = 0 .. capacity - 1
    /\ vao_binding \in BOOLEAN
    /\ array_buffer_binding \in BOOLEAN
    /\ debug_assertions \in BOOLEAN
    /\ bindings \in 0 .. MaxBindings
    /\ ret \in Nat
    /\ pc \in {"running", "panicked"}

-----------------------------------------------------------------------------
(* Vocabulary of the properties *)

HostItems == buffer.items

HostLen == VecDequeLen(buffer)

AfterSync == last_op \in {"buffer_growth", "buffer_incremental", "buffer_noop"}

\* Occupied GPU range length, (head - tail) mod capacity.
Occupied == IF capacity = 0 THEN 0 ELSE (head - tail + capacity) % capacity

\* GPU slots tail, tail+1, ..., head-1 (modulo capacity), in that order.
GpuLive == [i \in 1 .. Occupied |-> vertices[(tail + i - 1) % capacity]]

\* The write-sub-range calls among a list of GL calls.
SubWrites(calls) == SelectSeq(calls, LAMBDA c : c.call = "buffer_sub_data")

\* The vertices a list of draw_arrays calls reads from the GPU buffer.
RECURSIVE DrawnVertices(_)
DrawnVertices(calls) ==
    IF calls = << >> THEN << >>
    ELSE LET c == Head(calls)
         IN  [i \in 1 .. c.count |-> vertices[c.first + i - 1]]
             \o DrawnVertices(Tail(calls))

RECURSIVE ConcatData(_)
ConcatData(calls) ==
    IF calls = << >> THEN << >> ELSE Head(calls).data \o ConcatData(Tail(calls))

IsPowerOfTwo(n) == n >= 1 /\ NextPowerOfTwo(n) = n

-----------------------------------------------------------------------------
(* C1 *)

\* C1: a draw() performed after a sync, with no push_back / pop_front in
\* between, issues range-draws whose lengths sum to exactly the length the
\* host queue had at that sync.
C1_DrawSumEqualsSyncLen ==
    (last_op = "draw" /\ synced) => SumCounts(gl_calls) = sync_len

\* A draw after a sync whose content wraps: two range-draws.
C1_Witness ==
    /\ last_op = "draw" /\ synced
    /\ Len(gl_calls) = 2
    /\ sync_len >= 3
    /\ SumCounts(gl_calls) = sync_len

-----------------------------------------------------------------------------
(* C2 *)

\* C2: after every sync the GPU slots tail .. head-1 (modulo capacity) hold
\* exactly the host queue's elements, front to back, and the ranges draw()
\* would issue read exactly those elements.
C2_GpuMirrorsHost ==
    synced =>
        /\ GpuLive = HostItems
        /\ DrawnVertices(DrawCalls(tail, head, capacity)) = HostItems

\* An incremental sync whose upload was split at the end of the GPU buffer,
\* after pops, leaving wrapped live content.
C2_Witness ==
    /\ last_op = "buffer_incremental"
    /\ Len(gl_calls) = 2
    /\ pre.popped > 0
    /\ tail > head
    /\ GpuLive = HostItems
    /\ HostLen >= 3

-----------------------------------------------------------------------------
(* C3 *)

\* C3: the GPU capacity is always 0 or a power of two, no step decreases
\* it, and only buffer() changes it.
C3_CapacityMonotonePow2 ==
    /\ [](capacity = 0 \/ IsPowerOfTwo(capacity))
    /\ [][/\ capacity' >= capacity
          /\ (capacity' # capacity => last_op' = "buffer_growth")]_vars

\* The capacity has grown twice and operations of every other kind ran since.
C3_Witness ==
    /\ capacity = 4 * (STARTING_CAP + 1)
    /\ last_op = "draw"
    /\ ~synced

-----------------------------------------------------------------------------
(* C4 *)

\* C4: immediately after every sync, on each path, pushed = 0, popped = 0
\* and (head - tail) mod capacity equals the host queue's length.
C4_SyncClearsPending ==
    AfterSync => /\ pushed = 0
                 /\ popped = 0
                 /\ capacity > 0
                 /\ (head - tail + capacity) % capacity = HostLen

\* An incremental sync that clamped pushes against pops.
C4_Witness ==
    /\ last_op = "buffer_incremental"
    /\ pre.pushed > HostLen
    /\ pre.popped > 0
    /\ HostLen > 0
    /\ pushed = 0 /\ popped = 0
    /\ Occupied = HostLen

-----------------------------------------------------------------------------
(* C5 *)

\* The wraparound scenario on a fresh queue (tail still 0) that held `held`
\* elements at the previous sync: 3 pops and 3 pushes, then a sync that
\* does not grow the capacity.
WrapScenario(held) ==
    /\ synced
    /\ pre.capacity = capacity
    /\ pre.tail = 0
    /\ pre.sync_len = held
    /\ pre.popped = 3
    /\ pre.pushed = 3

\* C5 as stated: a queue filled to 8 elements, 3 popped, 3 pushed, synced
\* without growth, has tail > head and draws two ranges of combined length 8.
C5_AsStated ==
    WrapScenario(8) =>
        /\ tail > head
        /\ (last_op = "draw" => Len(gl_calls) = 2 /\ SumCounts(gl_calls) = 8)

\* C5 (amended): a fresh queue filled to capacity - 1 elements, all that a
\* GPU capacity holds (7 for capacity 8), then 3 popped and 3 pushed: after
\* the sync tail > head, and draw() issues exactly two range-draws whose
\* combined length is capacity - 1.
C5_WrapAtFullRing ==
    WrapScenario(capacity - 1) =>
        /\ tail > head
        /\ (last_op = "draw" =>
               Len(gl_calls) = 2 /\ SumCounts(gl_calls) = capacity - 1)

\* The scenario at capacity 8 with 7 elements, drawn.
C5_Witness ==
    /\ WrapScenario(7)
    /\ capacity = 8
    /\ last_op = "draw"
    /\ tail = 3 /\ head = 2
    /\ gl_calls = <<DrawArrays(3, 5), DrawArrays(0, 2)>>

-----------------------------------------------------------------------------
(* C6 *)

\* C6: when the capacity the host ring requires exceeds the GPU capacity,
\* buffer() allocates that capacity, sets tail = 0 and head = n and uploads
\* the whole content in at most two writes, the first at offset 0 and the
\* second right after it, whatever the pending counters are; pushing
\* STARTING_CAP + 2 elements into a new queue (1025 for 1023) and syncing
\* gives capacity 2 * (STARTING_CAP + 1) (2048).
C6_GrowthPath ==
    (AfterSync /\ pre.new_cap > pre.capacity) =>
        LET writes == SubWrites(gl_calls)
        IN  /\ last_op = "buffer_growth"
            /\ capacity = pre.new_cap
            /\ IsPowerOfTwo(capacity)
            /\ tail = 0
            /\ head = HostLen
            /\ gl_calls = <<BufferData(pre.new_cap)>> \o writes
            /\ Len(writes) <= 2
            /\ (HostLen > 0 => Len(writes) >= 1)
            /\ (Len(writes) >= 1 => writes[1].first = 0)
            /\ (Len(writes) = 2 => writes[2].first = writes[1].count)
            /\ \A i \in 1 .. Len(writes) : writes[i].count > 0
            /\ ConcatData(writes) = HostItems
            /\ ((pre.capacity = 0 /\ pre.pushed = STARTING_CAP + 2 /\ pre.popped = 0)
                   => capacity = 2 * (STARTING_CAP + 1))

\* A growth sync with pending pushes and pops that uploads two slices.
C6_Witness ==
    /\ last_op = "buffer_growth"
    /\ pre.capacity > 0
    /\ pre.pushed > 0 /\ pre.popped > 0
    /\ Len(SubWrites(gl_calls)) = 2
    /\ SubWrites(gl_calls)[2].first = SubWrites(gl_calls)[1].count

-----------------------------------------------------------------------------
(* C7 *)

\* k > 0 elements pushed and all popped again since a sync point at which
\* the queue was empty.
PushedAndPoppedAll ==
    /\ AfterSync
    /\ pre.sync_len = 0
    /\ pre.pushed > 0
    /\ pre.popped = pre.pushed
    /\ HostLen = 0

\* C7 as stated: such a sync issues no write-sub-range call and leaves tail
\* and head unchanged.
C7_AsStated ==
    PushedAndPoppedAll =>
        /\ SubWrites(gl_calls) = << >>
        /\ tail = pre.tail
        /\ head = pre.head

\* C7 (amended): such a sync issues no write-sub-range call; it leaves tail
\* and head unchanged unless the pushes grew the host ring beyond the GPU
\* capacity, in which case the growth path resets both to 0.
C7_ClampNoWrites ==
    PushedAndPoppedAll =>
        /\ SubWrites(gl_calls) = << >>
        /\ IF pre.new_cap > pre.capacity
           THEN tail = 0 /\ head = 0
           ELSE tail = pre.tail /\ head = pre.head

\* Pushed and popped again on the incremental path with moved cursors.
C7_Witness ==
    /\ PushedAndPoppedAll
    /\ last_op = "buffer_incremental"
    /\ pre.pushed >= 2
    /\ tail = pre.tail /\ head = pre.head /\ tail > 0
    /\ gl_calls = << >>

-----------------------------------------------------------------------------
(* C8 *)

\* C8 as stated: if the only calls since the last sync are one push_back
\* immediately followed by one pop_front, the sync issues no
\* write-sub-range call.
C8_AsStated ==
    (AfterSync /\ pre.churn = "push_pop") => SubWrites(gl_calls) = << >>

\* C8 (amended): if the queue was empty at the last sync (or was never
\* synced) and the only calls since are one push_back immediately followed
\* by one pop_front, the sync issues no write-sub-range call.
C8_PushPopOnEmptyNoWrites ==
    (AfterSync /\ pre.churn = "push_pop" /\ pre.sync_len = 0)
        => SubWrites(gl_calls) = << >>

\* One push then one pop on a queue that was empty at the previous sync.
C8_Witness ==
    /\ last_op = "buffer_incremental"
    /\ pre.churn = "push_pop"
    /\ pre.sync_len = 0
    /\ pre.pushed = 1 /\ pre.popped = 1
    /\ gl_calls = << >>

-----------------------------------------------------------------------------
(* C9 *)

\* The second sync of a round trip: the k > 0 elements present at the
\* previous sync were all popped, nothing was pushed.
RoundTrip ==
    /\ synced
    /\ pre.sync_len > 0
    /\ pre.popped = pre.sync_len
    /\ pre.pushed = 0

\* C9: push k, sync, pop k, sync leaves tail = head (occupied length 0),
\* and a draw() after it issues no range-draw.
C9_RoundTripEmpty ==
    RoundTrip =>
        /\ tail = head
        /\ Occupied = 0
        /\ (last_op = "draw" => gl_calls = << >>)

\* A round trip of 3 elements followed by a draw.
C9_Witness ==
    /\ RoundTrip
    /\ pre.sync_len = 3
    /\ last_op = "draw"
    /\ tail = head /\ tail > 0
    /\ gl_calls = << >>

-----------------------------------------------------------------------------
(* C10 *)

PushStep == last_op' \in {"push_back", "push_back_dropped"}

\* C10: the host queue never holds more than HARD_CAP elements; a push_back
\* at length >= HARD_CAP changes neither the queue, the pending counters
\* nor any cursor, and its value is absent from the queue; a push_back
\* below the cap appends the value and adds exactly 1 to pushed.
C10_HardCap ==
    /\ [](HostLen <= HARD_CAP)
    /\ [][PushStep =>
            IF HostLen >= HARD_CAP
            THEN /\ last_op' = "push_back_dropped"
                 /\ UNCHANGED <<buffer, pushed, popped, capacity, tail, head, vertices>>
                 /\ \A i \in 1 .. Len(buffer'.items) : buffer'.items[i] # next_v
            ELSE /\ last_op' = "push_back"
                 /\ buffer'.items = Append(buffer.items, next_v)
                 /\ pushed' = pushed + 1
                 /\ UNCHANGED <<popped, capacity, tail, head, vertices>>]_vars

\* A push_back was dropped at the cap.
C10_Witness ==
    /\ last_op = "push_back_dropped"
    /\ HostLen = HARD_CAP
    /\ \A i \in 1 .. HostLen : HostItems[i] # next_v - 1

-----------------------------------------------------------------------------
(* C11 *)

PopStep == last_op' = "pop_front"

\* C11: pop_front on a non-empty queue removes and returns the oldest
\* element, in push_back order (the queue is ordered by push ordinal and
\* the returned vertex precedes all that remain); pop_front on an empty
\* queue fails (the program stops, no vertex is returned) and moves no
\* cursor.
C11_PopFrontFifoOrFail ==
    /\ [](\A i \in 1 .. HostLen : \A j \in 1 .. HostLen :
              i < j => HostItems[i] < HostItems[j])
    /\ [](\A i \in 1 .. HostLen : ret < HostItems[i])
    /\ [][PopStep =>
            IF HostLen > 0
            THEN /\ ret' = HostItems[1]
                 /\ buffer'.items = Tail(HostItems)
                 /\ pc' = "running"
            ELSE /\ pc' = "panicked"
                 /\ ret' = 0
                 /\ UNCHANGED <<buffer, capacity, tail, head, vertices>>]_vars

\* pop_front returned a vertex while later ones remain queued.
C11_Witness ==
    /\ last_op = "pop_front"
    /\ pc = "running"
    /\ ret >= 2
    /\ HostLen >= 2
    /\ HostItems[1] = ret + 1

\* pop_front was called on an empty queue.
C11_WitnessEmpty ==
    /\ last_op = "pop_front"
    /\ pc = "panicked"
    /\ HostLen = 0

-----------------------------------------------------------------------------
(* C12 *)

DrawStep == last_op' = "draw"

\* C12: with tail <= head draw() issues the single range-draw [tail, head),
\* and none when head = tail; with tail > head it issues [tail, capacity)
\* and then [0, head), each only if non-empty; draw() changes no cursor,
\* capacity, pending counter, GPU content or host queue.
C12_DrawRanges ==
    /\ [](last_op = "draw" =>
            /\ (tail = head => gl_calls = << >>)
            /\ (tail < head => gl_calls = <<DrawArrays(tail, head - tail)>>)
            /\ ((tail > head /\ head > 0) =>
                   gl_calls = <<DrawArrays(tail, capacity - tail), DrawArrays(0, head)>>)
            /\ ((tail > head /\ head = 0) =>
                   gl_calls = <<DrawArrays(tail, capacity - tail)>>)
            /\ \A i \in 1 .. Len(gl_calls) :
                   gl_calls[i].call = "draw_arrays" /\ gl_calls[i].count > 0)
    /\ [][DrawStep => UNCHANGED <<buffer, capacity, tail, head, popped, pushed,
                                  vertices>>]_vars

\* A draw of wrapped content: [tail, capacity) then [0, head).
C12_Witness ==
    /\ last_op = "draw"
    /\ tail > head /\ head > 0
    /\ gl_calls = <<DrawArrays(tail, capacity - tail), DrawArrays(0, head)>>

-----------------------------------------------------------------------------
(* C13 *)

BindStep == last_op' = "bind"

DropStep == last_op' = "drop"

\* C13 as stated: acquiring a binding binds the vertex array and is
\* rejected (failed assertion) whenever one is already bound, so at most
\* one binding scope is alive; leaving a scope unbinds; with no scope alive
\* nothing is bound.
C13_AsStated ==
    /\ [](bindings <= 1)
    /\ [](bindings = 0 => ~vao_binding)
    /\ [][BindStep =>
            IF vao_binding
            THEN pc' = "panicked" /\ UNCHANGED <<vao_binding, bindings>>
            ELSE pc' = "running" /\ vao_binding' /\ bindings' = bindings + 1]_vars
    /\ [][DropStep => ~vao_binding' /\ bindings' = bindings - 1]_vars

\* C13 (amended): acquiring a binding binds the vertex array; in a build
\* with debug assertions it is rejected (failed assertion) whenever one is
\* already bound, so there at most one binding scope is alive and the
\* vertex array is bound exactly while it is; a build without them does
\* not reject it.  Leaving a scope unbinds; with no scope alive (after
\* construction, after every released scope) nothing is bound.
C13_BindingDiscipline ==
    /\ [](debug_assertions => bindings <= 1 /\ (vao_binding <=> bindings = 1))
    /\ [](bindings = 0 => ~vao_binding)
    /\ [][BindStep =>
            IF debug_assertions /\ vao_binding
            THEN pc' = "panicked" /\ UNCHANGED <<vao_binding, bindings>>
            ELSE pc' = "running" /\ vao_binding' /\ bindings' = bindings + 1]_vars
    /\ [][DropStep => ~vao_binding' /\ bindings' = bindings - 1]_vars

\* An acquisition rejected by the debug assertion while a scope is held.
C13_Witness ==
    /\ last_op = "bind"
    /\ pc = "panicked"
    /\ debug_assertions
    /\ vao_binding
    /\ bindings = 1

\* Without debug assertions: a second scope acquired while one is held.
C13_WitnessRelease ==
    /\ last_op = "bind"
    /\ pc = "running"
    /\ ~debug_assertions
    /\ bindings = 2

-----------------------------------------------------------------------------
(* C14 *)

IsGpuWrite(c) == c.call \in {"buffer_data", "buffer_sub_data"}

\* C14: every buffer allocation and write-sub-range call is issued by
\* buffer(), while no vertex array is bound and no binding scope is alive;
\* every draw_arrays call is issued by draw() while a binding scope of the
\* deque is held.
C14_WritesOutsideScope ==
    \A i \in 1 .. Len(gl_calls) :
        /\ IsGpuWrite(gl_calls[i]) =>
              /\ last_op \in {"buffer_growth", "buffer_incremental"}
              /\ ~vao_binding
              /\ bindings = 0
        /\ gl_calls[i].call = "draw_arrays" =>
              /\ last_op = "draw"
              /\ bindings > 0

\* A growth sync that reallocates and uploads again with nothing bound.
C14_Witness ==
    /\ last_op = "buffer_growth"
    /\ pre.capacity > 0
    /\ Len(gl_calls) >= 2
    /\ ~vao_binding
    /\ bindings = 0

-----------------------------------------------------------------------------
(* C15 *)

\* min(pending_pushed, n) at the last sync.
Delta == Min(pre.pushed, HostLen)

\* C15: on the incremental path buffer() writes exactly the last
\* min(pushed, n) elements of the host queue, in order, in at most two
\* non-empty sub-writes: the first at slot head covering at most
\* capacity - head slots, the second at slot 0; head then advances by
\* min(pushed, n) modulo capacity.
C15_MinimalDelta ==
    last_op = "buffer_incremental" =>
        /\ \A i \in 1 .. Len(gl_calls) :
               gl_calls[i].call = "buffer_sub_data" /\ gl_calls[i].count > 0
        /\ Len(gl_calls) <= 2
        /\ SumCounts(gl_calls) = Delta
        /\ ConcatData(gl_calls) = SubSeq(HostItems, HostLen - Delta + 1, HostLen)
        /\ (Len(gl_calls) >= 1 =>
               /\ gl_calls[1].first = pre.head
               /\ gl_calls[1].count <= capacity - pre.head)
        /\ (Len(gl_calls) = 2 =>
               /\ gl_calls[2].first = 0
               /\ gl_calls[1].count = capacity - pre.head)
        /\ head = (pre.head + Delta) % capacity

\* An incremental sync whose upload is split: one sub-write up to the end
\* of the GPU buffer, one from slot 0, fewer elements than the queue holds.
C15_Witness ==
    /\ last_op = "buffer_incremental"
    /\ Len(gl_calls) = 2
    /\ gl_calls[1].first = pre.head
    /\ gl_calls[2].first = 0
    /\ Delta < HostLen
    /\ Delta >= 3

-----------------------------------------------------------------------------
(* C16 *)

\* C16: on the incremental path with more pushes pending than elements in
\* the queue, popped is lowered by exactly pushed - n (never saturating),
\* the tail advances by the number of elements the GPU held after the
\* previous sync, so the new tail is the old head, and only the n elements
\* still queued are written.
C16_ClampCancelsPops ==
    (last_op = "buffer_incremental" /\ pre.pushed > HostLen) =>
        /\ pre.popped >= pre.pushed - HostLen
        /\ pre.popped - (pre.pushed - HostLen) = pre.sync_len
        /\ tail = (pre.tail + pre.sync_len) % capacity
        /\ tail = pre.head
        /\ SumCounts(gl_calls) = HostLen
        /\ ConcatData(gl_calls) = HostItems

\* Pushes outnumbering the queue while elements of the previous sync were
\* on the GPU and some pushes survive.
C16_Witness ==
    /\ last_op = "buffer_incremental"
    /\ pre.pushed > HostLen
    /\ HostLen >= 2
    /\ pre.sync_len >= 2
    /\ tail = pre.head
    /\ tail # pre.tail

-----------------------------------------------------------------------------
(* C17 *)

-----------------------------------------------------------------------------
(* C18 *)

\* C18: after every sync the host queue is shorter than the GPU capacity,
\* so tail = head exactly when the queue is empty, and draw() draws
\* something whenever the queue is not empty.
C18_SentinelSlotFree ==
    synced =>
        /\ HostLen < capacity
        /\ (tail = head <=> HostLen = 0)
        /\ (HostLen > 0 => DrawCalls(tail, head, capacity) # << >>)
        /\ ((last_op = "draw" /\ HostLen > 0) => gl_calls # << >>)

\* A draw of a queue that fills its capacity up to the sentinel slot.
C18_Witness ==
    /\ synced
    /\ last_op = "draw"
    /\ HostLen = capacity - 1
    /\ tail > 0
    /\ tail # head
    /\ SumCounts(gl_calls) = capacity - 1

-----------------------------------------------------------------------------
(* C19 *)

\* C19: once capacity > 0, tail and head lie in [0, capacity), and every
\* write-sub-range and range-draw covers only slots inside [0, capacity).
C19_CursorsAndRangesInBounds ==
    /\ (capacity > 0 =>
           /\ 0 <= tail /\ tail < capacity
           /\ 0 <= head /\ head < capacity)
    /\ \A i \in 1 .. Len(gl_calls) :
           gl_calls[i].call \in {"buffer_sub_data", "draw_arrays"} =>
               /\ gl_calls[i].first >= 0
               /\ gl_calls[i].first + gl_calls[i].count <= capacity

\* A sub-write that ends exactly at the last slot, followed by one at 0.
C19_Witness ==
    /\ last_op = "buffer_incremental"
    /\ Len(gl_calls) = 2
    /\ gl_calls[1].first + gl_calls[1].count = capacity
    /\ gl_calls[2].first = 0
    /\ head = gl_calls[2].count

-----------------------------------------------------------------------------
(* C20 *)

SyncStep ==
    last_op' \in {"buffer_growth", "buffer_incremental", "buffer_noop"}

\* C20: a sync with nothing pending and no growth needed, and so any sync
\* directly after a sync, issues no GL allocation or write and leaves
\* capacity, tail, head, the counters, the GPU content and the host queue
\* unchanged.
C20_NoopSync ==
    [][(SyncStep /\ (AfterSync \/ (pushed = 0 /\ popped = 0
                                    /\ NewCap(buffer) <= capacity))) =>
          /\ last_op' = "buffer_noop"
          /\ gl_calls' = << >>
          /\ UNCHANGED <<buffer, capacity, tail, head, pushed, popped, vertices,
                         vao_binding, array_buffer_binding>>]_vars

\* A second sync directly after a sync, on a non-empty wrapped queue.
C20_Witness ==
    /\ last_op = "buffer_noop"
    /\ pre.churn = "none"
    /\ pre.sync_len = HostLen
    /\ pre.tail = tail /\ pre.head = head /\ pre.capacity = capacity
    /\ tail > head
    /\ gl_calls = << >>

-----------------------------------------------------------------------------
(* C21 *)

\* C21: a sync performed while the host queue is empty issues no
\* write-sub-range call, on the growth path and on the incremental path,
\* whatever the pending push and pop counts are.
C21_EmptyQueueNoWrites ==
    (AfterSync /\ HostLen = 0) =>
        \A i \in 1 .. Len(gl_calls) : gl_calls[i].call # "buffer_sub_data"

\* An incremental sync of an emptied queue: elements of the previous sync
\* and later pushes were all popped.
C21_Witness ==
    /\ last_op = "buffer_incremental"
    /\ HostLen = 0
    /\ pre.sync_len >= 1
    /\ pre.pushed >= 2
    /\ pre.popped = pre.sync_len + pre.pushed
    /\ gl_calls = << >>

\* A growth sync of an emptied queue with pushes and pops pending.
C21_WitnessGrowth ==
    /\ last_op = "buffer_growth"
    /\ HostLen = 0
    /\ pre.capacity > 0
    /\ pre.pushed >= 1 /\ pre.popped >= 1
    /\ gl_calls = <<BufferData(capacity)>>

=============================================================================
